---- MODULE Spec2Model ----
(***************************************************************************)
(* Model of drover: Master (the orchestrator, src/unnamed/part_003),       *)
(* Worker (the handle, src/src/Worker.js) and MessageBus (the child-side   *)
(* status channel, src/src/MessageBus.js).                                  *)
(*                                                                         *)
(* The master runs on one event loop.  A master operation is a sequence of *)
(* awaits; the continuation of a settled await is a microtask and runs     *)
(* before any further I/O event, so while op.st = "run" only the master    *)
(* steps are enabled.  Process events (online, message, exit) and the      *)
(* child's own steps are the macrotasks that interleave.                   *)
(*                                                                         *)
(* worker.send(msg, null, cb): the callback of a completed write runs      *)
(* before the reply to that message can be read from the same channel, so  *)
(* Worker._sendMessage followed by _assureStatusSequence registers the     *)
(* listener before any reply is dispatched: send and registration are one  *)
(* step.                                                                   *)
(*                                                                         *)
(* _.cloneDeep(this._workerCollection) in gracefulReload copies functions  *)
(* by reference: the clones keep the originals' bound _assureStatusSequence*)
(* and the process object's send closure, so a clone's stop()/quit() talks *)
(* to the original child and listens on the original Worker.  The old set  *)
(* is therefore modelled by the original handles.                          *)
(***************************************************************************)
EXTENDS Integers, Sequences, FiniteSets, TLC

\* ---------------------------------------------------------------- bounds
MaxCount == 2
MaxScale == 3
MaxHandles == 4
MaxOps == 3
MaxFaults == 1
MaxSheep == 2
MaxAssure == 2
\* operations the application with the README listener invokes
MaxOwnerOps == 2

\* ------------------------------------------------------ program constants
INITIALIZED == 1
STARTING == 2
STARTED == 3
STOPPING == 4
STOPPED == 5
SHUTTING_DOWN == 6
SHUTTED_DOWN == 7
FAILED == 8

WorkerStatuses == {INITIALIZED, STARTING, STARTED, STOPPING, STOPPED,
                   SHUTTING_DOWN, SHUTTED_DOWN, FAILED}

STATUS_SHUTTED_DOWN == 1
STATUS_STARTING == 2
STATUS_STARTED == 3
STATUS_STOPPING == 4
STATUS_STOPPED == 5

\* the internal {act: 'online'} message of the cluster module, first on the channel
ONLINE == 0
\* exit(code, signal): code is null when the process was terminated by a signal
CodeNull == -1

Handles == 1..MaxHandles

\* the timeout-bounded status assurance: identities waited for, the statuses
\* a Drover reports for them, and how many assure calls are looked at
SheepIds == 1..MaxSheep
SheepStatus == {"STATUS_READY", "STATUS_STOPPED", "STATUS_SHUTTED_DOWN"}

VARIABLES
    config,     \* the timeouts of the config handed to MasterFactory.create
    created,    \* what the construction gave: "created" or the error thrown
    count,      \* config.count
    mstatus,    \* Master._status
    scale,      \* Master._scale
    coll,       \* Master._workerCollection: sequence of handles
    nextHandle, \* number of Worker objects constructed so far, plus one
    nextId,     \* the cluster module's id counter (cluster.fork)
    wstatus,    \* Worker._status
    wid,        \* Worker._worker.id, 0 while Worker._worker is undefined
    alive,      \* the child process exists
    cstatus,    \* MessageBus._status in the child
    cpend,      \* acknowledgments the hosted application still owes
    toMaster,   \* IPC channel child -> master, in order
    toChild,    \* IPC channel master -> child, in order
    exitEv,     \* the process' exit event, not yet dispatched
    lsn,        \* the live 'status-changed' listener of _assureStatusSequence
    op,         \* the master operation in flight
    result,     \* how the last invoked operation settled
    pre,        \* the collection as it was when the operation was invoked
    hist,       \* per handle: the statuses emitted with 'status-changed'
    sent,       \* per handle: commands written and kill signals issued
    exits,      \* per handle: the reasons emitted with 'exit'
    nops,       \* operations invoked so far
    nfault,     \* faults injected so far
    uncaught,   \* handles whose event handling threw out of the master's loop
    sheep,      \* the SheepStatusManager: _drover and _pending
    owner       \* the owning application: worker-exit notifications handled,
                \* and its restartWorkerById calls in flight

\* the orchestrator, its handles and their children
programVars ==
    <<config, created, count, mstatus, scale, coll, nextHandle, nextId,
      wstatus, wid, alive, cstatus, cpend, toMaster, toChild, exitEv, lsn, op,
      result, pre, hist, sent, exits, nops, nfault, uncaught, owner>>

vars == <<programVars, sheep>>

masterVars == <<count, mstatus, scale, coll, nextHandle>>
childVars == <<alive, cstatus, cpend, toChild>>

\* ---------------------------------------------------------------- helpers
Range(s) == {s[i] : i \in 1..Len(s)}

Idle == [kind |-> "none", st |-> "idle", stages |-> <<>>, i |-> 0,
         delta |-> 0, news |-> <<>>, index |-> 0]

NoListener == [h |-> 0, seq |-> <<>>]

NoResult ==
    [kind |-> "none", outcome |-> "pending", err |-> "", value |-> 0,
     data |-> <<>>]

NoExit == [pending |-> FALSE, code |-> 0, signal |-> ""]

Settled(kind, outcome, err, value) ==
    [kind |-> kind, outcome |-> outcome, err |-> err, value |-> value,
     data |-> <<>>]

\* new WorkerStatusError('Unexpected worker status', {expectedStatus,
\* actualStatus}) as the rejection of the operation of the given kind
WorkerStatusError(kind, expectedStatus, actualStatus) ==
    [Settled(kind, "rejected", "WorkerStatusError", 0)
        EXCEPT !.data = <<expectedStatus, actualStatus>>]

Stage(g, grp) == [g |-> g, grp |-> grp]

Snapshot ==
    [coll |-> coll,
     ids |-> {wid[coll[k]] : k \in 1..Len(coll)},
     statuses |-> [k \in 1..Len(coll) |-> wstatus[coll[k]]],
     nextHandle |-> nextHandle,
     nextId |-> nextId,
     mstatus |-> mstatus,
     scale |-> scale,
     sent |-> sent,
     arg |-> 0]

\* Master._createWorkerCollection(n): n Worker objects, in creation order
CreateWorkerCollection(n) == [k \in 1..n |-> nextHandle + k - 1]

\* the sequences handed to Worker._assureStatusSequence
StartSequenceOnlineOnly == <<STARTING>>
StartSequence == <<STARTING, STARTED>>
StopSequence == <<STOPPING, STOPPED>>
QuitSequence == <<SHUTTING_DOWN, SHUTTED_DOWN>>


\* ------------------------------------------------------------------ Init
\* no restartWorkerById call of the owner has constructed this handle
NoCall ==
    [st |-> "none", index |-> 0, id |-> 0, before |-> <<>>, with |-> {},
     nops |-> 0, idle |-> FALSE]

\* an owner that has handled no worker-exit and called nothing
NoOwner ==
    [present |-> FALSE, handled |-> {}, calls |-> [h \in Handles |-> NoCall]]

\* an owner that has registered the worker-exit listener of the README
ReadmeOwner == [NoOwner EXCEPT !.present = TRUE]

\* SheepStatusManager._deferredStatus has not been called for the identity
NoPending ==
    [st |-> "none", asked |-> {}, value |-> "", timer |-> "none", armed |-> 0,
     calls |-> 0]

\* SheepStatusManager.constructor: nothing pending, no Drover bound
NewSheepStatusManager ==
    [drover |-> FALSE, pending |-> [id \in SheepIds |-> NoPending]]

\* an _assertConfig that does not look at the timeouts
AssertConfigCountOnly(c, restartTimeout, statusTimeout) == c > 0

\* Master._assertConfig for integer count and timeouts: TRUE when it does not
\* throw InvalidConfigurationError
AssertConfig(c, restartTimeout, statusTimeout) ==
    /\ restartTimeout > 0
    /\ statusTimeout > 0
    /\ c > 0

\* MasterFactory.create / Master.constructor: a config that _assertConfig
\* refuses gives no orchestrator, and then nothing can be invoked
ConstructCounting(invoked) ==
    /\ count \in 0..MaxCount
    /\ config \in [restartTimeout : {0, 1}, statusTimeout : {0, 1}]
    /\ created = IF AssertConfig(count, config.restartTimeout, config.statusTimeout)
                 THEN "created" ELSE "InvalidConfigurationError"
    /\ mstatus = STATUS_SHUTTED_DOWN
    /\ scale = IF created = "created" THEN count ELSE 0
    /\ coll = IF created = "created" THEN [k \in 1..count |-> k] ELSE <<>>
    /\ nextHandle = Len(coll) + 1
    /\ nextId = 1
    /\ wstatus = [h \in Handles |-> INITIALIZED]
    /\ wid = [h \in Handles |-> 0]
    /\ alive = [h \in Handles |-> FALSE]
    /\ cstatus = [h \in Handles |-> INITIALIZED]
    /\ cpend = [h \in Handles |-> {}]
    /\ toMaster = [h \in Handles |-> <<>>]
    /\ toChild = [h \in Handles |-> <<>>]
    /\ exitEv = [h \in Handles |-> NoExit]
    /\ lsn = NoListener
    /\ op = Idle
    /\ result = NoResult
    /\ pre = [coll |-> <<>>, ids |-> {}, statuses |-> <<>>, nextHandle |-> 1,
              nextId |-> 1, mstatus |-> STATUS_SHUTTED_DOWN, scale |-> 0,
              sent |-> [h \in Handles |-> <<>>], arg |-> 0]
    /\ hist = [h \in Handles |-> <<>>]
    /\ sent = [h \in Handles |-> <<>>]
    /\ exits = [h \in Handles |-> <<>>]
    /\ nops = invoked
    /\ nfault = 0
    /\ uncaught = {}
    /\ sheep = NewSheepStatusManager

Construct == ConstructCounting(0)

\* an application that registers no worker-exit listener
Init == Construct /\ owner = NoOwner

\* the application of the README, with its worker-exit listener
InitOwner == ConstructCounting(MaxOps - MaxOwnerOps) /\ owner = ReadmeOwner

\* ------------------------------------------------- the owner's turn
\* Master.restartWorkerById: findIndex over the collection by getId()
RestartIndex(id) ==
    IF \E k \in 1..Len(coll) : wid[coll[k]] = id
    THEN CHOOSE k \in 1..Len(coll) :
            /\ wid[coll[k]] = id
            /\ \A j \in 1..(k - 1) : wid[coll[j]] # id
    ELSE 0

\* Master._instantiateWorker: worker.once('exit', ...) forwards the first
\* reason the handle emits as 'worker-exit' (reason, workerId)
WorkerExitEmitted(h) ==
    IF exits[h] = <<>> THEN <<>>
    ELSE <<[reason |-> Head(exits[h]), id |-> wid[h]]>>

\* the worker-exit listener of the README is due for handle h: the handle has
\* emitted its exit reason, ExternalSignal or AbnormalExit, and the listener
\* has not run for it
RestartDue(h) ==
    /\ owner.present
    /\ WorkerExitEmitted(h) # <<>>
    /\ h \notin owner.handled
    /\ WorkerExitEmitted(h)[1].reason.type \in {"ExternalSignal", "AbnormalExit"}

\* what the replacement's handle has observed settles the start() the
\* owner's call waits for: [STARTING, STARTED] resolves it, any other first or
\* second status rejects it
StartObserved(n) ==
    IF Len(hist[n]) >= 1 /\ hist[n][1] # STARTING THEN "rejected"
    ELSE IF Len(hist[n]) < 2 THEN "pending"
    ELSE IF hist[n][2] = STARTED THEN "resolved" ELSE "rejected"

\* the owner's code that runs before the event loop takes its next event: the
\* worker-exit listener, called synchronously by the emit, and the
\* continuation of a restartWorkerById call whose start() has settled
OwnerDue ==
    /\ owner.present
    /\ \/ \E h \in Handles :
            /\ RestartDue(h)
            /\ RestartIndex(wid[h]) = 0 \/ nextHandle <= MaxHandles
       \/ \E n \in Handles :
            /\ owner.calls[n].st = "await"
            /\ StartObserved(n) # "pending"

\* the event loop is free to take an I/O event: no continuation of the
\* operation in flight and none of the owner is queued
EventLoopIdle == op.st # "run" /\ ~OwnerDue

\* ------------------------------------------------------------ Worker side
\* a statusChangedHandler that lets a wrong status pass and keeps waiting
NotifyIgnoringMismatch(h, s) ==
    IF lsn.h = h /\ s = Head(lsn.seq)
    THEN IF Len(lsn.seq) = 1
         THEN /\ lsn' = NoListener
              /\ op' = [op EXCEPT !.st = "run", !.i = @ + 1]
              /\ UNCHANGED result
         ELSE /\ lsn' = [lsn EXCEPT !.seq = Tail(@)]
              /\ UNCHANGED <<op, result>>
    ELSE UNCHANGED <<lsn, op, result>>

\* a statusChangedHandler that shifts the expected status and never compares
NotifyWithoutCompare(h, s) ==
    IF lsn.h = h
    THEN IF Len(lsn.seq) = 1
         THEN /\ lsn' = NoListener
              /\ op' = [op EXCEPT !.st = "run", !.i = @ + 1]
              /\ UNCHANGED result
         ELSE /\ lsn' = [lsn EXCEPT !.seq = Tail(@)]
              /\ UNCHANGED <<op, result>>
    ELSE UNCHANGED <<lsn, op, result>>

\* the statusChangedHandler of Worker._assureStatusSequence, run for the
\* 'status-changed' emission of handle h: a wrong status rejects the awaited
\* call (and with it the master operation, which has no catch that recovers),
\* the last expected status resolves it and the operation's loop goes on
Notify(h, s) ==
    IF lsn.h = h
    THEN IF s = Head(lsn.seq)
         THEN IF Len(lsn.seq) = 1
              THEN /\ lsn' = NoListener
                   /\ op' = [op EXCEPT !.st = "run", !.i = @ + 1]
                   /\ UNCHANGED result
              ELSE /\ lsn' = [lsn EXCEPT !.seq = Tail(@)]
                   /\ UNCHANGED <<op, result>>
         ELSE /\ lsn' = NoListener
              /\ op' = Idle
              /\ result' = WorkerStatusError(op.kind, Head(lsn.seq), s)
    ELSE UNCHANGED <<lsn, op, result>>

\* Worker._changeStatus
ChangeStatus(h, s) ==
    IF wstatus[h] # s
    THEN /\ wstatus' = [wstatus EXCEPT ![h] = s]
         /\ hist' = [hist EXCEPT ![h] = Append(@, s)]
         /\ Notify(h, s)
    ELSE UNCHANGED <<wstatus, hist, lsn, op, result>>

\* Worker._onlineHandler
OnlineHandler(h) ==
    IF wstatus[h] # INITIALIZED
    THEN \* emits 'start-failed': rejects a start() of h that is still pending
         /\ IF lsn.h = h /\ op.stages # <<>> /\ Head(op.stages).g = "start"
            THEN /\ lsn' = NoListener
                 /\ op' = Idle
                 /\ result' = Settled(op.kind, "rejected", "UnexpectedWorkerState", 0)
            ELSE UNCHANGED <<lsn, op, result>>
         /\ UNCHANGED <<wstatus, hist>>
    ELSE ChangeStatus(h, STARTING)

\* Worker._messageHandler for {event: 'status-changed', payload}: an invalid
\* payload makes _changeStatus throw, and the handler swallows the exception
MessageHandler(h, payload) ==
    IF payload \in WorkerStatuses
    THEN ChangeStatus(h, payload)
    ELSE UNCHANGED <<wstatus, hist, lsn, op, result>>

\* an exit handler that leaves the status as it finds it
ExitStatusKept(status, code, signal) == status

\* Worker._exitHandler: the status it leaves
ExitStatus(status, code, signal) ==
    IF status \in {STOPPING, SHUTTING_DOWN} THEN status ELSE FAILED

\* an exit handler that tests the code for truthiness instead of for 0
ExitReasonsTruthy(status, code, signal) ==
    IF status \in {STOPPING, SHUTTING_DOWN}
    THEN IF code # 0 THEN <<[type |-> "NormalExit", code |-> code, signal |-> ""]>>
                     ELSE <<>>
    ELSE IF signal # ""
         THEN <<[type |-> "ExternalSignal", code |-> CodeNull, signal |-> signal]>>
         ELSE <<[type |-> "AbnormalExit", code |-> code, signal |-> ""]>>

\* Worker._exitHandler: the reasons it emits with 'exit'
ExitReasons(status, code, signal) ==
    IF status \in {STOPPING, SHUTTING_DOWN}
    THEN IF code = 0 THEN <<[type |-> "NormalExit", code |-> code, signal |-> ""]>>
                     ELSE <<>>
    ELSE IF signal # ""
         THEN <<[type |-> "ExternalSignal", code |-> CodeNull, signal |-> signal]>>
         ELSE <<[type |-> "AbnormalExit", code |-> code, signal |-> ""]>>

\* dispatch of the head of the channel child -> master
DeliverMessage(h) ==
    /\ EventLoopIdle
    /\ toMaster[h] # <<>>
    /\ toMaster' = [toMaster EXCEPT ![h] = Tail(@)]
    /\ IF Head(toMaster[h]) = ONLINE
       THEN OnlineHandler(h)
       ELSE MessageHandler(h, Head(toMaster[h]))
    /\ UNCHANGED <<sheep, owner, config, created,
                   masterVars, childVars, nextId, wid, exitEv, pre, sent, exits,
                   nops, nfault, uncaught>>

\* dispatch of the process' exit event (registered with once)
DeliverExit(h) ==
    /\ EventLoopIdle
    /\ exitEv[h].pending
    /\ exitEv' = [exitEv EXCEPT ![h] = NoExit]
    /\ ChangeStatus(h, ExitStatus(wstatus[h], exitEv[h].code, exitEv[h].signal))
    /\ exits' = [exits EXCEPT ![h] =
                    @ \o ExitReasons(wstatus[h], exitEv[h].code, exitEv[h].signal)]
    /\ UNCHANGED <<sheep, owner, config, created,
                   masterVars, childVars, nextId, wid, toMaster, pre, sent,
                   nops, nfault, uncaught>>

\* ------------------------------------------------------------- child side
\* MessageBus._changeStatus: report only a status that differs.  The code
\* assigns this._status after the await of the send; for a single call per
\* target status the later reader of _status sees the same as with the
\* assignment at the send, which is how cstatus is kept here.
BusChangeStatus(h, s) ==
    IF cstatus[h] # s
    THEN /\ toMaster' = [toMaster EXCEPT ![h] = Append(@, s)]
         /\ cstatus' = [cstatus EXCEPT ![h] = s]
    ELSE UNCHANGED <<toMaster, cstatus>>

\* a message handler that notifies the hosted application without reporting
\* STOPPING / SHUTTING_DOWN first
ChildReceiveSilent(h) ==
    /\ EventLoopIdle
    /\ alive[h]
    /\ toChild[h] # <<>>
    /\ toChild' = [toChild EXCEPT ![h] = Tail(@)]
    /\ cpend' = [cpend EXCEPT ![h] =
                    @ \cup {IF Head(toChild[h]) = "stop" THEN "stopped"
                                                         ELSE "shutdown"}]
    /\ UNCHANGED <<sheep, owner, config, created,
                   masterVars, nextId, wstatus, wid, alive, cstatus, toMaster,
                   exitEv, lsn, op, result, pre, hist, sent, exits, nops,
                   nfault, uncaught>>

\* MessageBus' process.on('message'): STOP and QUIT, then the notification
\* of the hosted application, which owes mark-stopped / mark-shutdown
ChildReceive(h) ==
    /\ EventLoopIdle
    /\ alive[h]
    /\ toChild[h] # <<>>
    /\ toChild' = [toChild EXCEPT ![h] = Tail(@)]
    /\ IF Head(toChild[h]) = "stop"
       THEN /\ BusChangeStatus(h, STOPPING)
            /\ cpend' = [cpend EXCEPT ![h] = @ \cup {"stopped"}]
       ELSE /\ BusChangeStatus(h, SHUTTING_DOWN)
            /\ cpend' = [cpend EXCEPT ![h] = @ \cup {"shutdown"}]
    /\ UNCHANGED <<sheep, owner, config, created,
                   masterVars, nextId, wstatus, wid, alive, exitEv, lsn, op,
                   result, pre, hist, sent, exits, nops, nfault, uncaught>>

\* the hosted application of the README: app.listen(PORT, mb.sendStarted),
\* server.close(mb.sendStopped), and mb.sendShuttedDown() followed by exit(0)
ChildAcknowledge(h) ==
    /\ EventLoopIdle
    /\ alive[h]
    /\ \E a \in cpend[h] \ {"exit"} :
          /\ BusChangeStatus(h, CASE a = "started" -> STARTED
                                  [] a = "stopped" -> STOPPED
                                  [] OTHER -> SHUTTED_DOWN)
          /\ cpend' = [cpend EXCEPT ![h] =
                          (@ \ {a}) \cup (IF a = "shutdown" THEN {"exit"} ELSE {})]
    /\ UNCHANGED <<sheep, owner, config, created,
                   masterVars, nextId, wstatus, wid, alive, toChild, exitEv, lsn,
                   op, result, pre, hist, sent, exits, nops, nfault,
                   uncaught>>

\* two calls of MessageBus._changeStatus(s) before the send of the first has
\* completed: this._status is still the old one at the second call, so both
\* pass the comparison and both send
BusChangeStatusTwice(h, s) ==
    IF cstatus[h] # s
    THEN /\ toMaster' = [toMaster EXCEPT ![h] = @ \o <<s, s>>]
         /\ cstatus' = [cstatus EXCEPT ![h] = s]
    ELSE UNCHANGED <<toMaster, cstatus>>

\* the hosted application calls sendStarted / sendStopped / sendShuttedDown
\* twice in a row for an acknowledgment it owes
ChildAcknowledgeTwice(h) ==
    /\ EventLoopIdle
    /\ alive[h]
    /\ \E a \in cpend[h] \ {"exit"} :
          /\ BusChangeStatusTwice(h, CASE a = "started" -> STARTED
                                       [] a = "stopped" -> STOPPED
                                       [] OTHER -> SHUTTED_DOWN)
          /\ cpend' = [cpend EXCEPT ![h] =
                          (@ \ {a}) \cup (IF a = "shutdown" THEN {"exit"} ELSE {})]
    /\ UNCHANGED <<sheep, owner, config, created,
                   masterVars, nextId, wstatus, wid, alive, toChild, exitEv, lsn,
                   op, result, pre, hist, sent, exits, nops, nfault,
                   uncaught>>

\* setTimeout(() => process.exit(0), 50) of the quit listener
ChildExit(h) ==
    /\ EventLoopIdle
    /\ alive[h]
    /\ "exit" \in cpend[h]
    /\ alive' = [alive EXCEPT ![h] = FALSE]
    /\ cpend' = [cpend EXCEPT ![h] = {}]
    /\ exitEv' = [exitEv EXCEPT ![h] = [pending |-> TRUE, code |-> 0, signal |-> ""]]
    /\ UNCHANGED <<sheep, owner, config, created,
                   masterVars, nextId, wstatus, wid, cstatus, toMaster, toChild,
                   lsn, op, result, pre, hist, sent, exits, nops, nfault,
                   uncaught>>


\* ------------------------------------------------------ master: one handle
CurStage == Head(op.stages)
CurHandle == CurStage.grp[op.i]
Running(g) ==
    /\ op.st = "run"
    /\ ~OwnerDue
    /\ op.stages # <<>>
    /\ CurStage.g = g
    /\ op.i <= Len(CurStage.grp)

\* the await of the operation rejects: nothing of the operation runs after it
Reject(err) ==
    /\ op' = Idle
    /\ result' = Settled(op.kind, "rejected", err, 0)

\* process.kill('SIGKILL') on the child of handle h
KilledAlive(h, al) == [al EXCEPT ![h] = FALSE]
KilledExit(h, al, ev) ==
    IF al[h] THEN [ev EXCEPT ![h] = [pending |-> TRUE, code |-> CodeNull,
                                     signal |-> "SIGKILL"]]
             ELSE ev

\* Worker.start() for the next handle of Master._startGroup: fork, register
\* the process listeners, wait for [STARTING, STARTED]
WorkerStart ==
    /\ Running("start")
    /\ LET h == CurHandle IN
       IF wstatus[h] # INITIALIZED
       THEN /\ Reject("UnexpectedWorkerState")
            /\ UNCHANGED <<nextId, wid, alive, cstatus, cpend, toMaster, lsn>>
       ELSE /\ wid' = [wid EXCEPT ![h] = nextId]
            /\ nextId' = nextId + 1
            /\ alive' = [alive EXCEPT ![h] = TRUE]
            /\ cstatus' = [cstatus EXCEPT ![h] = INITIALIZED]
            /\ cpend' = [cpend EXCEPT ![h] = {"started"}]
            /\ toMaster' = [toMaster EXCEPT ![h] = <<ONLINE>>]
            /\ lsn' = [h |-> h, seq |-> StartSequence]
            /\ op' = [op EXCEPT !.st = "await"]
            /\ UNCHANGED result
    /\ UNCHANGED <<sheep, owner, config, created,
                   masterVars, wstatus, toChild, exitEv, pre, hist, sent, exits,
                   nops, nfault, uncaught>>

\* Worker._sendMessage(cmd) then _assureStatusSequence(seq) on handle h.  A
\* write to the channel of a process that is gone either fails (the callback
\* gets the error and the call rejects) or is accepted and never read.
SendAndAssure(h, cmd, seq) ==
    \E ok \in IF alive[h] THEN {TRUE} ELSE BOOLEAN :
        IF ok
        THEN /\ toChild' = [toChild EXCEPT ![h] = Append(@, cmd)]
             /\ sent' = [sent EXCEPT ![h] = Append(@, cmd)]
             /\ lsn' = [h |-> h, seq |-> seq]
             /\ op' = [op EXCEPT !.st = "await"]
             /\ UNCHANGED result
        ELSE /\ Reject("ChannelClosed")
             /\ UNCHANGED <<toChild, sent, lsn>>

\* Worker.stop() for the next handle of Master._stopGroup
WorkerStop ==
    /\ Running("stop")
    /\ LET h == CurHandle IN
       IF wid[h] = 0
       THEN /\ op' = [op EXCEPT !.i = @ + 1]
            /\ UNCHANGED <<toChild, sent, lsn, result>>
       ELSE SendAndAssure(h, "stop", StopSequence)
    /\ UNCHANGED <<sheep, owner, config, created,
                   masterVars, nextId, wstatus, wid, alive, cstatus, cpend,
                   toMaster, exitEv, pre, hist, exits, nops, nfault,
                   uncaught>>

\* Worker.quit(false) for the next handle of Master._killGroup; without a
\* process this._worker.send throws a TypeError
WorkerQuit ==
    /\ Running("kill")
    /\ LET h == CurHandle IN
       IF wid[h] = 0
       THEN /\ Reject("TypeError")
            /\ UNCHANGED <<toChild, sent, lsn>>
       ELSE SendAndAssure(h, "quit", QuitSequence)
    /\ UNCHANGED <<sheep, owner, config, created,
                   masterVars, nextId, wstatus, wid, alive, cstatus, cpend,
                   toMaster, exitEv, pre, hist, exits, nops, nfault,
                   uncaught>>

\* Worker._sendMessage(cmd) alone: the message is written to the channel and
\* the promise of _sendMessage waits for the callback of this._worker.send
SendMessage(h, cmd) ==
    /\ toChild' = [toChild EXCEPT ![h] = Append(@, cmd)]
    /\ sent' = [sent EXCEPT ![h] = Append(@, cmd)]
    /\ op' = [op EXCEPT !.st = "send"]

\* Worker.stop() / Worker.quit(false) up to `await this._sendMessage(...)`,
\* for a handle with a live process, when the callback of the send is not
\* called before the event loop goes on
WorkerSend ==
    /\ \/ Running("stop")
       \/ Running("kill")
    /\ wid[CurHandle] # 0
    /\ alive[CurHandle]
    /\ SendMessage(CurHandle, IF CurStage.g = "stop" THEN "stop" ELSE "quit")
    /\ UNCHANGED <<sheep, owner, config, created,
                   masterVars, nextId, wstatus, wid, alive, cstatus, cpend,
                   toMaster, exitEv, lsn, result, pre, hist, exits, nops,
                   nfault, uncaught>>

\* the callback of this._worker.send is called without error: _sendMessage
\* resolves and stop() / quit() goes on to _assureStatusSequence, which only
\* now registers the 'status-changed' listener
SendCallback ==
    /\ op.st = "send"
    /\ lsn' = [h |-> CurHandle,
               seq |-> IF CurStage.g = "stop" THEN StopSequence
                                              ELSE QuitSequence]
    /\ op' = [op EXCEPT !.st = "await"]
    /\ UNCHANGED <<sheep, owner, config, created,
                   masterVars, childVars, nextId, wstatus, wid, toMaster,
                   exitEv, result, pre, hist, sent, exits, nops, nfault,
                   uncaught>>

\* the groups still to run when a group has run out.  gracefulShutdown hands
\* this._workerCollection to _killGroup after _gracefulStop has returned: the
\* collection as it is then, which a 'stop-failed' may have shortened
NextStages ==
    IF op.kind = "gracefulShutdown" /\ CurStage.g = "stop"
    THEN <<Stage("kill", coll)>>
    ELSE Tail(op.stages)

\* the loop of _startGroup / _stopGroup / _killGroup has run out: the next
\* statement of the operation.  Master._gracefulStop sets STATUS_STOPPED
\* after its _stopGroup.
StageDone ==
    /\ op.st = "run"
    /\ ~OwnerDue
    /\ op.stages # <<>>
    /\ op.i > Len(CurStage.grp)
    /\ op' = [op EXCEPT !.stages = NextStages, !.i = 1]
    /\ mstatus' = IF op.kind = "gracefulShutdown" /\ CurStage.g = "stop"
                  THEN STATUS_STOPPED ELSE mstatus
    /\ UNCHANGED <<sheep, owner, config, created,
                   count, scale, coll, nextHandle, nextId, wstatus, wid, alive,
                   cstatus, cpend, toMaster, toChild, exitEv, lsn, result, pre,
                   hist, sent, exits, nops, nfault, uncaught>>

\* the statements after the last await of the operation
FinishStatus(kind) ==
    CASE kind = "start" -> STATUS_STARTED
      [] kind = "gracefulShutdown" -> STATUS_SHUTTED_DOWN
      [] OTHER -> mstatus

\* a rescale that puts the newcomers in front (unshift for push)
FinishCollectionPrepend(kind) ==
    CASE kind = "rescale" -> op.news \o coll
      [] kind = "gracefulShutdown" -> <<>>
      [] OTHER -> coll

\* a restart that puts the replacement at the end of the collection
FinishCollectionRestartAppends(kind) ==
    CASE kind = "rescale" -> coll \o op.news
      [] kind = "gracefulShutdown" -> <<>>
      [] kind = "restartWorkerById" ->
            SubSeq(coll, 1, op.index - 1) \o SubSeq(coll, op.index + 1, Len(coll))
                \o op.news
      [] OTHER -> coll

\* a splice that removes the handle at the index and puts the new one last
SpliceLast(c, i, w) ==
    SubSeq(c, 1, i - 1) \o SubSeq(c, i + 1, Len(c)) \o <<w>>

\* Array.prototype.splice(index, 1, w) at the 1-based position i: a position
\* past the end appends
Splice(c, i, w) ==
    LET at == IF i > Len(c) THEN Len(c) + 1 ELSE i
    IN SubSeq(c, 1, at - 1) \o <<w>> \o SubSeq(c, at + 1, Len(c))

FinishCollection(kind) ==
    CASE kind = "rescale" -> coll \o op.news
      [] kind = "gracefulShutdown" -> <<>>
      [] kind = "restartWorkerById" -> Splice(coll, op.index, op.news[1])
      [] OTHER -> coll

Finish ==
    /\ op.st = "run"
    /\ ~OwnerDue
    /\ op.stages = <<>>
    /\ mstatus' = FinishStatus(op.kind)
    /\ coll' = FinishCollection(op.kind)
    /\ result' = Settled(op.kind, "resolved", "", op.delta)
    /\ op' = Idle
    /\ UNCHANGED <<sheep, owner, config, created,
                   count, scale, nextHandle, nextId, wstatus, wid, alive, cstatus,
                   cpend, toMaster, toChild, exitEv, lsn, pre, hist, sent, exits,
                   nops, nfault, uncaught>>


\* ------------------------------------------------- master: the operations
\* the owner invokes an operation when none is in flight
Invoke ==
    /\ created = "created"
    /\ op.kind = "none"
    /\ ~OwnerDue
    /\ nops < MaxOps
    /\ nops' = nops + 1
    /\ pre' = Snapshot

\* the same for an operation that takes an argument
InvokeWith(arg) ==
    /\ created = "created"
    /\ op.kind = "none"
    /\ ~OwnerDue
    /\ nops < MaxOps
    /\ nops' = nops + 1
    /\ pre' = [Snapshot EXCEPT !.arg = arg]

Begin(kind, stages, delta, news) ==
    [kind |-> kind, st |-> "run", stages |-> stages, i |-> 1,
     delta |-> delta, news |-> news, index |-> 0]

\* a start() without its status check
StartUnguarded ==
    /\ Invoke
    /\ mstatus' = STATUS_STARTING
    /\ op' = Begin("start", <<Stage("start", coll)>>, 0, <<>>)
    /\ result' = NoResult
    /\ UNCHANGED <<sheep, owner, config, created,
                   count, scale, coll, nextHandle, nextId, wstatus, wid, alive,
                   cstatus, cpend, toMaster, toChild, exitEv, lsn, hist, sent,
                   exits, nfault, uncaught>>

\* Master.start
Start ==
    /\ Invoke
    /\ IF mstatus \notin {STATUS_SHUTTED_DOWN, STATUS_STOPPED}
       THEN /\ result' = Settled("start", "rejected", "AlreadyInitializedError", 0)
            /\ UNCHANGED <<mstatus, op>>
       ELSE /\ mstatus' = STATUS_STARTING
            /\ op' = Begin("start", <<Stage("start", coll)>>, 0, <<>>)
            /\ result' = NoResult
    /\ UNCHANGED <<sheep, owner, config, created,
                   count, scale, coll, nextHandle, nextId, wstatus, wid, alive,
                   cstatus, cpend, toMaster, toChild, exitEv, lsn, hist, sent,
                   exits, nfault, uncaught>>

\* a scale-down that takes its victims from the end of the collection
RescaleVictimsNewest(c, n) == SubSeq(c, Len(c) - n + 1, Len(c))

\* Master.rescale: the victims of a scale-down and what splice leaves
RescaleVictims(c, n) == SubSeq(c, 1, n)
RescaleRest(c, n) == SubSeq(c, n + 1, Len(c))

RescaleStages(delta, news, victims) ==
    IF delta > 0 THEN <<Stage("start", news)>>
    ELSE IF delta < 0 THEN <<Stage("kill", victims)>>
    ELSE <<>>

Rescale(size) ==
    /\ InvokeWith(size)
    /\ size - Len(coll) <= MaxHandles + 1 - nextHandle
    /\ IF size <= 0
       THEN /\ result' = Settled("rescale", "rejected", "InvalidArgumentError", 0)
            /\ UNCHANGED <<scale, coll, nextHandle, op>>
       ELSE IF mstatus # STATUS_STARTED
       THEN /\ result' = Settled("rescale", "rejected", "InappropriateConditionError", 0)
            /\ UNCHANGED <<scale, coll, nextHandle, op>>
       ELSE LET delta == size - Len(coll)
                news == IF delta > 0 THEN CreateWorkerCollection(delta) ELSE <<>>
                victims == IF delta < 0 THEN RescaleVictims(coll, -delta) ELSE <<>>
            IN /\ scale' = size
               /\ nextHandle' = nextHandle + Len(news)
               /\ coll' = IF delta < 0 THEN RescaleRest(coll, -delta) ELSE coll
               /\ op' = Begin("rescale", RescaleStages(delta, news, victims),
                              delta, news)
               /\ result' = NoResult
    /\ UNCHANGED <<sheep, owner, config, created,
                   count, mstatus, nextId, wstatus, wid, alive, cstatus, cpend,
                   toMaster, toChild, exitEv, lsn, hist, sent, exits, nfault,
                   uncaught>>

\* Master.gracefulShutdown, with Master._gracefulStop when not yet STOPPED
ShutdownStages(status, c) ==
    IF status # STATUS_STOPPED
    THEN <<Stage("stop", c), Stage("kill", c)>>
    ELSE <<Stage("kill", c)>>

GracefulShutdown ==
    /\ Invoke
    /\ IF mstatus \notin {STATUS_STARTED, STATUS_STOPPED}
       THEN /\ result' = Settled("gracefulShutdown", "rejected",
                                 "InappropriateConditionError", 0)
            /\ UNCHANGED <<mstatus, op>>
       ELSE /\ mstatus' = IF mstatus # STATUS_STOPPED THEN STATUS_STOPPING
                                                      ELSE mstatus
            /\ op' = Begin("gracefulShutdown", ShutdownStages(mstatus, coll),
                           0, <<>>)
            /\ result' = NoResult
    /\ UNCHANGED <<sheep, owner, config, created,
                   count, scale, coll, nextHandle, nextId, wstatus, wid, alive,
                   cstatus, cpend, toMaster, toChild, exitEv, lsn, hist, sent,
                   exits, nfault, uncaught>>

\* a reload that never starts the replacements
ReloadStagesNoStart(old, new) ==
    <<Stage("stop", old), Stage("kill", old)>>

\* a reload that stops the old set before it starts the replacements
ReloadStagesStopFirst(old, new) ==
    <<Stage("stop", old), Stage("start", new), Stage("kill", old)>>

\* a reload that quits the old set before it starts the replacements
ReloadStagesKillFirst(old, new) ==
    <<Stage("kill", old), Stage("start", new), Stage("stop", old)>>

\* a reload that quits the old set without stopping it first
ReloadStagesNoStop(old, new) ==
    <<Stage("start", new), Stage("kill", old)>>

\* Master.gracefulReload: the order of its three groups
ReloadStages(old, new) ==
    <<Stage("start", new), Stage("stop", old), Stage("kill", old)>>

\* the size of the replacement set
ReloadSize == scale

GracefulReload ==
    /\ Invoke
    /\ ReloadSize <= MaxHandles + 1 - nextHandle
    /\ IF mstatus # STATUS_STARTED
       THEN /\ result' = Settled("gracefulReload", "rejected",
                                 "InappropriateConditionError", 0)
            /\ UNCHANGED <<coll, nextHandle, op>>
       ELSE LET new == CreateWorkerCollection(ReloadSize) IN
            /\ coll' = new
            /\ nextHandle' = nextHandle + Len(new)
            /\ op' = Begin("gracefulReload", ReloadStages(coll, new), 0, <<>>)
            /\ result' = NoResult
    /\ UNCHANGED <<sheep, owner, config, created,
                   count, mstatus, scale, nextId, wstatus, wid, alive, cstatus,
                   cpend, toMaster, toChild, exitEv, lsn, hist, sent, exits,
                   nfault, uncaught>>

\* Master.restartWorkerById: quit(true) on the handle found, then a new
\* Worker is constructed and started, then splice(index, 1, worker)
RestartWorkerById(id) ==
    /\ InvokeWith(id)
    /\ nextHandle <= MaxHandles
    /\ LET index == RestartIndex(id) IN
       IF index = 0
       THEN /\ result' = Settled("restartWorkerById", "resolved", "", 0)
            /\ UNCHANGED <<nextHandle, alive, cpend, exitEv, sent, op>>
       ELSE LET h == coll[index] IN
            /\ alive' = KilledAlive(h, alive)
            /\ cpend' = [cpend EXCEPT ![h] = {}]
            /\ exitEv' = KilledExit(h, alive, exitEv)
            /\ sent' = [sent EXCEPT ![h] = Append(@, "kill")]
            /\ nextHandle' = nextHandle + 1
            /\ op' = [Begin("restartWorkerById",
                            <<Stage("start", <<nextHandle>>)>>, 0, <<nextHandle>>)
                         EXCEPT !.index = index]
            /\ result' = NoResult
    /\ UNCHANGED <<sheep, owner, config, created,
                   count, mstatus, scale, coll, nextId, wstatus, wid, cstatus,
                   toMaster, toChild, lsn, hist, exits, nfault, uncaught>>

\* Master.hardShutdown: _killGroup(collection, true).  quit(true) kills and
\* returns a resolved promise, so the loop runs without yielding to an event;
\* on a handle without a process this._worker.process throws a TypeError and
\* the loop stops there.
FirstUnspawned(c) ==
    IF \E k \in 1..Len(c) : wid[c[k]] = 0
    THEN CHOOSE k \in 1..Len(c) :
            /\ wid[c[k]] = 0
            /\ \A j \in 1..(k - 1) : wid[c[j]] # 0
    ELSE Len(c) + 1

HardKilled(c) == {c[k] : k \in 1..(FirstUnspawned(c) - 1)}

\* Master._killGroup(this._workerCollection, true): SIGKILL, handle by handle,
\* up to the first handle without a process
KillGroupForced ==
    LET killed == HardKilled(coll) IN
    /\ alive' = [h \in Handles |-> IF h \in killed THEN FALSE ELSE alive[h]]
    /\ cpend' = [h \in Handles |-> IF h \in killed THEN {} ELSE cpend[h]]
    /\ exitEv' = [h \in Handles |->
                     IF h \in killed THEN KilledExit(h, alive, exitEv)[h]
                                     ELSE exitEv[h]]
    /\ sent' = [h \in Handles |->
                     IF h \in killed THEN Append(sent[h], "kill") ELSE sent[h]]

HardShutdown ==
    /\ Invoke
    /\ KillGroupForced
    /\ IF FirstUnspawned(coll) <= Len(coll)
       THEN /\ result' = Settled("hardShutdown", "rejected", "TypeError", 0)
            /\ UNCHANGED mstatus
       ELSE /\ result' = Settled("hardShutdown", "resolved", "", 0)
            /\ mstatus' = STATUS_SHUTTED_DOWN
    /\ UNCHANGED <<sheep, owner, config, created,
                   count, scale, coll, nextHandle, nextId, wstatus, wid, cstatus,
                   toMaster, toChild, lsn, op, hist, exits, nfault, uncaught>>

\* Master.hardShutdown invoked by the owner while another operation is
\* waiting for a handle: nothing in hardShutdown looks at the operation in
\* flight, which goes on afterwards.  (Its own promise is not recorded: result
\* and pre stay those of the operation in flight.)
HardShutdownOverlapping ==
    /\ created = "created"
    /\ op.kind # "none"
    /\ EventLoopIdle
    /\ nops < MaxOps
    /\ nops' = nops + 1
    /\ KillGroupForced
    /\ mstatus' = IF FirstUnspawned(coll) <= Len(coll)
                  THEN mstatus ELSE STATUS_SHUTTED_DOWN
    /\ UNCHANGED <<sheep, owner, config, created,
                   count, scale, coll, nextHandle, nextId, wstatus, wid, cstatus,
                   toMaster, toChild, lsn, op, result, pre, hist, exits, nfault,
                   uncaught>>

\* ------------------------------------------------------------------ faults
\* the child terminates on its own (exit code 0 or 1) or is killed from
\* outside the supervisor
ChildDie(h) ==
    /\ EventLoopIdle
    /\ alive[h]
    /\ nfault < MaxFaults
    /\ nfault' = nfault + 1
    /\ alive' = [alive EXCEPT ![h] = FALSE]
    /\ cpend' = [cpend EXCEPT ![h] = {}]
    /\ \E ev \in {[pending |-> TRUE, code |-> 0, signal |-> ""],
                  [pending |-> TRUE, code |-> 1, signal |-> ""],
                  [pending |-> TRUE, code |-> CodeNull, signal |-> "SIGKILL"]} :
          exitEv' = [exitEv EXCEPT ![h] = ev]
    /\ UNCHANGED <<sheep, owner, config, created,
                   masterVars, nextId, wstatus, wid, cstatus, toMaster, toChild,
                   lsn, op, result, pre, hist, sent, exits, nops, uncaught>>

\* the hosted application calls an acknowledgment out of turn
ChildMisreport(h) ==
    /\ EventLoopIdle
    /\ alive[h]
    /\ nfault < MaxFaults
    /\ nfault' = nfault + 1
    /\ \E s \in {STARTED, STOPPED, SHUTTED_DOWN} : BusChangeStatus(h, s)
    /\ UNCHANGED <<sheep, owner, config, created,
                   masterVars, nextId, wstatus, wid, alive, cpend, toChild,
                   exitEv, lsn, op, result, pre, hist, sent, exits, nops,
                   uncaught>>

\* Master._instantiateWorker: the 'stop-failed' listener drops the handle
\* with that id from the collection
StopFailed(h) == SelectSeq(coll, LAMBDA x : wid[x] # wid[h])

\* Worker._errorHandler's emit('error', err, id): no 'error' listener is ever
\* registered on a Worker, so EventEmitter throws the error out of the handler
ErrorThrown(h) == uncaught \cup {h}

\* the 'error' event of the process reference (it could not be killed, or a
\* message to it could not be sent), handled by Worker._errorHandler
ProcessError(h) ==
    /\ EventLoopIdle
    /\ wid[h] # 0
    /\ nfault < MaxFaults
    /\ nfault' = nfault + 1
    /\ IF wstatus[h] = STARTING
       THEN \* emits 'start-failed': rejects the start() of h that is pending
            /\ IF lsn.h = h /\ op.stages # <<>> /\ Head(op.stages).g = "start"
               THEN /\ lsn' = NoListener
                    /\ op' = Idle
                    /\ result' = Settled(op.kind, "rejected", "ProcessError", 0)
               ELSE UNCHANGED <<lsn, op, result>>
            /\ UNCHANGED <<coll, wstatus, hist, uncaught>>
       ELSE IF wstatus[h] = STOPPING
       THEN \* emits 'stop-failed'; a pending stop() of h stays pending
            /\ coll' = StopFailed(h)
            /\ UNCHANGED <<lsn, op, result, wstatus, hist, uncaught>>
       ELSE /\ ChangeStatus(h, FAILED)
            /\ uncaught' = ErrorThrown(h)
            /\ UNCHANGED coll
    /\ UNCHANGED <<sheep, owner, config, created, count, mstatus, scale, nextHandle, nextId,
                   wid, alive, cstatus, cpend, toMaster, toChild, exitEv, pre,
                   sent, exits, nops>>

\* ----------------------------------------------------------- specifications
MasterStep ==
    \/ WorkerStart
    \/ WorkerStop
    \/ WorkerQuit
    \/ StageDone
    \/ Finish

Operation ==
    \/ Start
    \/ \E size \in 0..MaxScale : Rescale(size)
    \/ GracefulShutdown
    \/ GracefulReload
    \/ \E id \in 1..nextId : RestartWorkerById(id)
    \/ HardShutdown

Environment ==
    \E h \in Handles :
        \/ DeliverMessage(h)
        \/ DeliverExit(h)
        \/ ChildReceive(h)
        \/ ChildAcknowledge(h)
        \/ ChildExit(h)

Fault ==
    \E h \in Handles :
        \/ ChildDie(h)
        \/ ChildMisreport(h)
        \/ ProcessError(h)

\* children that follow the protocol and end only when told to
Next == MasterStep \/ Operation \/ Environment

Spec == Init /\ [][Next]_vars

\* the same, with children that die or report out of turn
NextFault == Next \/ Fault

SpecFault == Init /\ [][NextFault]_vars

\* ------------------------------------------------------------ the owner
\* the restartWorkerById(id) call made for the exit of handle h, waiting for
\* its replacement; besides the index found it notes what the call met: the
\* collection, the owner's calls still waiting, the operations invoked so
\* far and whether one was in flight
CallBegun(h, index) ==
    [st |-> "await", index |-> index, id |-> wid[h], before |-> coll,
     with |-> {m \in Handles : owner.calls[m].st = "await"},
     nops |-> nops, idle |-> op.kind = "none"]

\* master.on('worker-exit', ...) of the README calls restartWorkerById(id),
\* which runs up to the await of the replacement's start(): findIndex, then
\* quit(true) on the handle found, a new Worker, and its fork.  The call is
\* the owner's own and may overlap any operation in flight.
OwnerRestart(h) ==
    /\ RestartDue(h)
    /\ LET index == RestartIndex(wid[h])
           n == nextHandle
       IN IF index = 0
          THEN /\ owner' = [owner EXCEPT !.handled = @ \cup {h}]
               /\ UNCHANGED <<nextHandle, nextId, wid, alive, cstatus, cpend,
                              toMaster, exitEv, sent>>
          ELSE LET v == coll[index] IN
               /\ nextHandle <= MaxHandles
               /\ owner' = [owner EXCEPT !.handled = @ \cup {h},
                                         !.calls[n] = CallBegun(h, index)]
               /\ nextHandle' = nextHandle + 1
               /\ wid' = [wid EXCEPT ![n] = nextId]
               /\ nextId' = nextId + 1
               /\ alive' = [KilledAlive(v, alive) EXCEPT ![n] = TRUE]
               /\ exitEv' = KilledExit(v, alive, exitEv)
               /\ sent' = [sent EXCEPT ![v] = Append(@, "kill")]
               /\ cstatus' = [cstatus EXCEPT ![n] = INITIALIZED]
               /\ cpend' = [cpend EXCEPT ![v] = {}, ![n] = {"started"}]
               /\ toMaster' = [toMaster EXCEPT ![n] = <<ONLINE>>]
    /\ UNCHANGED <<sheep, config, created, count, mstatus, scale, coll,
                   wstatus, toChild, lsn, op, result, pre, hist, exits, nops,
                   nfault, uncaught>>

\* the owner's restartWorkerById call goes on after `await worker.start()`:
\* splice(index, 1, worker) with the index found at the call, or the
\* rejection of the call
OwnerRestartSettles(n) ==
    /\ owner.calls[n].st = "await"
    /\ StartObserved(n) # "pending"
    /\ owner' = [owner EXCEPT !.calls[n].st = StartObserved(n)]
    /\ coll' = IF StartObserved(n) = "resolved"
               THEN Splice(coll, owner.calls[n].index, n)
               ELSE coll
    /\ UNCHANGED <<sheep, config, created, count, mstatus, scale, nextHandle,
                   nextId, wstatus, wid, alive, cstatus, cpend, toMaster,
                   toChild, exitEv, lsn, op, result, pre, hist, sent, exits,
                   nops, nfault, uncaught>>

\* children are killed from outside the supervisor, one or two at a time
ChildrenDie(hs) ==
    /\ EventLoopIdle
    /\ hs # {}
    /\ Cardinality(hs) <= 2
    /\ \A h \in hs : alive[h]
    /\ nfault < MaxFaults
    /\ nfault' = nfault + 1
    /\ alive' = [h \in Handles |-> IF h \in hs THEN FALSE ELSE alive[h]]
    /\ cpend' = [h \in Handles |-> IF h \in hs THEN {} ELSE cpend[h]]
    /\ exitEv' = [h \in Handles |->
                     IF h \in hs THEN KilledExit(h, alive, exitEv)[h]
                                 ELSE exitEv[h]]
    /\ UNCHANGED <<sheep, owner, config, created,
                   masterVars, nextId, wstatus, wid, cstatus, toMaster, toChild,
                   lsn, op, result, pre, hist, sent, exits, nops, uncaught>>

Owner ==
    \/ \E h \in Handles : OwnerRestart(h)
    \/ \E n \in Handles : OwnerRestartSettles(n)
    \/ \E hs \in SUBSET Handles : ChildrenDie(hs)

NextOwner == Next \/ Owner

\* protocol-following children that may be killed from outside, and an owner
\* that follows the README: restartWorkerById on every worker-exit whose
\* reason is ExternalSignal or AbnormalExit
SpecOwner == InitOwner /\ [][NextOwner]_vars

\* --------------------------------------------------- a second start()
\* Worker.start() called on a constructed handle from outside the operation
\* in flight, as the _startGroup of a Master.start() does that follows an
\* overlapping hardShutdown().  In any status but INITIALIZED it rejects and
\* changes nothing.  In INITIALIZED it forks: this._worker is assigned the new
\* process, whose id becomes the handle's; a process forked before stays
\* alive without a reference, and its events still reach the handlers of the
\* handle.  (The promise of this call is not recorded.)
HandleStart(h) ==
    /\ created = "created"
    /\ EventLoopIdle
    /\ h < nextHandle
    /\ nops < MaxOps
    /\ nops' = nops + 1
    /\ IF wstatus[h] # INITIALIZED
       THEN UNCHANGED <<nextId, wid, alive, cstatus, cpend, toMaster>>
       ELSE /\ wid' = [wid EXCEPT ![h] = nextId]
            /\ nextId' = nextId + 1
            /\ alive' = [alive EXCEPT ![h] = TRUE]
            /\ cstatus' = [cstatus EXCEPT ![h] = INITIALIZED]
            /\ cpend' = [cpend EXCEPT ![h] = {"started"}]
            /\ toMaster' = [toMaster EXCEPT ![h] = Append(@, ONLINE)]
    /\ UNCHANGED <<sheep, owner, config, created,
                   masterVars, wstatus, toChild, exitEv, lsn, op, result, pre,
                   hist, sent, exits, nfault, uncaught>>

Direct == \E h \in Handles : HandleStart(h)

NextDirect == Next \/ Direct

\* protocol-following children, and a caller that may call start() on a
\* handle again
SpecDirect == Init /\ [][NextDirect]_vars

\* ------------------------------------------------- SheepStatusManager
\* SheepStatusManager.bindDrover: registers the SHEEP_STATUS_CHANGE listener;
\* a second call throws
BindDrover ==
    /\ ~sheep.drover
    /\ sheep' = [sheep EXCEPT !.drover = TRUE]
    /\ UNCHANGED programVars

\* SheepStatusManager._deferredStatus, for a call that expects `status`: a new
\* promise with its timer armed
DeferredStatus(p, status) ==
    [st |-> "pending", asked |-> {status}, value |-> "", timer |-> "armed",
     armed |-> p.armed + 1, calls |-> p.calls + 1]

\* SheepStatusManager.assure(id, status): the promise of _pending[id], made
\* when there is none; the status argument is not used
Assure(p, status) ==
    IF p.st = "none"
    THEN DeferredStatus(p, status)
    ELSE [p EXCEPT !.asked = @ \cup {status}, !.calls = @ + 1]

SheepAssure(id, status) ==
    /\ sheep.drover
    /\ sheep.pending[id].calls < MaxAssure
    /\ sheep' = [sheep EXCEPT !.pending[id] = Assure(@, status)]
    /\ UNCHANGED programVars

\* the SHEEP_STATUS_CHANGE listener of bindDrover: clearTimeout and
\* resolve(status) for whatever is in _pending[id]; resolving a promise that
\* has settled changes nothing
StatusChangeListener(p, status) ==
    IF p.st = "none" THEN p
    ELSE [p EXCEPT !.st = IF @ = "pending" THEN "resolved" ELSE @,
                   !.value = IF p.st = "pending" THEN status ELSE @,
                   !.timer = IF @ = "armed" THEN "cleared" ELSE @]

\* the Drover emits SHEEP_STATUS_CHANGE(id, status)
SheepStatusChange(id, status) ==
    /\ sheep.drover
    /\ sheep.pending[id].st # "none"
    /\ sheep' = [sheep EXCEPT !.pending[id] = StatusChangeListener(@, status)]
    /\ sheep' # sheep
    /\ UNCHANGED programVars

\* the timer of _deferredStatus fires: promise.reject(new TimeoutError(...))
SheepTimeout(id) ==
    /\ sheep.pending[id].timer = "armed"
    /\ sheep' = [sheep EXCEPT !.pending[id].timer = "fired",
                              !.pending[id].st = "rejected",
                              !.pending[id].value = "TimeoutError"]
    /\ UNCHANGED programVars

SheepNext ==
    \/ BindDrover
    \/ \E id \in SheepIds, status \in SheepStatus : SheepAssure(id, status)
    \/ \E id \in SheepIds, status \in SheepStatus : SheepStatusChange(id, status)
    \/ \E id \in SheepIds : SheepTimeout(id)

\* a SheepStatusManager next to an orchestrator that is created and left alone
SheepInit == Init /\ count = 1 /\ config = [restartTimeout |-> 1, statusTimeout |-> 1]

SpecSheep == SheepInit /\ [][SheepNext]_vars

\* protocol-following children, and an owner that does not wait for one
\* operation to settle before it invokes hardShutdown
Overlap == HardShutdownOverlapping

NextOverlap == Next \/ Overlap

SpecOverlap == Init /\ [][NextOverlap]_vars

\* protocol-following children whose application may call an acknowledgment
\* twice
Repeat == \E h \in Handles : ChildAcknowledgeTwice(h)

NextRepeat == Next \/ Repeat

SpecRepeat == Init /\ [][NextRepeat]_vars

\* protocol-following children, and a send whose callback may be called after
\* reports of the child have been dispatched
LateCallback == WorkerSend \/ SendCallback

NextLate == Next \/ LateCallback

SpecLate == Init /\ [][NextLate]_vars


\* ------------------------------------------------------------- observers
\* Master.getWorkersStatuses
GetWorkersStatuses == [k \in 1..Len(coll) |-> wstatus[coll[k]]]

\* the operation invoked last, in flight or settled
LastOp == IF op.kind # "none" THEN op.kind ELSE result.kind

Resolved(kind) == result.kind = kind /\ result.outcome = "resolved"
Rejected(kind) == result.kind = kind /\ result.outcome = "rejected"

AllStarted(c) == \A k \in 1..Len(c) : wstatus[c[k]] = STARTED

\* the handle observed status a and, right after it, status b
ObservedThen(h, a, b) ==
    \E j \in 1..(Len(hist[h]) - 1) : hist[h][j] = a /\ hist[h][j + 1] = b

IsPrefix(s, t) == Len(s) <= Len(t) /\ SubSeq(t, 1, Len(s)) = s

C2_StartWaitsForEveryHandle ==
    /\ Resolved("start") =>
          \A k \in 1..Len(coll) : IsPrefix(StartSequence, hist[coll[k]])
    /\ (LastOp = "start" /\ pre.statuses = [k \in 1..Len(coll) |-> INITIALIZED]) =>
          \A k \in 1..Len(coll) :
              (~IsPrefix(hist[coll[k]], StartSequence)
               /\ ~IsPrefix(StartSequence, hist[coll[k]]))
                  => Rejected("start")

C2_Witness ==
    /\ Rejected("start")
    /\ Len(coll) = 2
    /\ hist[coll[1]] = <<STARTING, STARTED>>
    /\ hist[coll[2]] = <<STARTING, FAILED>>

\* C3 (as stated): when start() rejects because a handle failed to start, no
\* child process spawned by that start() is left alive.
C3_NoSiblingLeftAlive ==
    (Rejected("start") /\ result.err # "AlreadyInitializedError") =>
        \A k \in 1..Len(coll) :
            wid[coll[k]] >= pre.nextId => ~alive[coll[k]]

\* C4 (as stated): when gracefulShutdown() resolves, the orchestrator status is
\* SHUT_DOWN, the collection and getWorkersStatuses() are empty, and every
\* handle that was in the collection has reached SHUTTED_DOWN.
C4_GracefulShutdownEmpties ==
    Resolved("gracefulShutdown") =>
        /\ mstatus = STATUS_SHUTTED_DOWN
        /\ coll = <<>>
        /\ GetWorkersStatuses = <<>>
        /\ \A k \in 1..Len(pre.coll) : SHUTTED_DOWN \in Range(hist[pre.coll[k]])


C6_ReloadKeepsServing ==
    (LastOp = "gracefulReload" /\ ~Rejected("gracefulReload")
     /\ pre.statuses = [k \in 1..Len(pre.coll) |-> STARTED]) =>
        /\ (\E k \in 1..Len(pre.coll) : sent[pre.coll[k]] # pre.sent[pre.coll[k]])
              => \A k \in 1..Len(coll) : STARTED \in Range(hist[coll[k]])
        /\ \/ AllStarted(pre.coll)
           \/ AllStarted(coll)

C6_Witness ==
    /\ op.kind = "gracefulReload"
    /\ Len(pre.coll) >= 2
    /\ wstatus[pre.coll[1]] = STOPPING
    /\ AllStarted(coll)

\* C7: from STARTED with N handles all STARTED, rescale(M) with M > N
\* resolves with M - N; then the collection has M handles all STARTED, the
\* N old handles keep the first N positions, the new ones follow them, and
\* the orchestrator status is still STARTED.
C7_RescaleUpAppends ==
    (Resolved("rescale") /\ result.value > 0
     /\ pre.statuses = [k \in 1..Len(pre.coll) |-> STARTED]) =>
        /\ result.value = scale - Len(pre.coll)
        /\ Len(coll) = scale
        /\ AllStarted(coll)
        /\ SubSeq(coll, 1, Len(pre.coll)) = pre.coll
        /\ \A k \in (Len(pre.coll) + 1)..Len(coll) : coll[k] >= pre.nextHandle
        /\ mstatus = STATUS_STARTED

C7_Witness == Resolved("rescale") /\ result.value >= 2 /\ Len(pre.coll) >= 1

\* C8: from STARTED with M handles, rescale(K) with 0 < K < M resolves with
\* K - M; the removed handles are those at the M - K lowest indices, the K
\* survivors keep their order and stay STARTED, and every removed handle has
\* observed SHUTTING_DOWN and then SHUTTED_DOWN.
C8_RescaleDownRemovesOldest ==
    (Resolved("rescale") /\ result.value < 0
     /\ pre.statuses = [k \in 1..Len(pre.coll) |-> STARTED]) =>
        LET M == Len(pre.coll)
            K == scale
        IN /\ result.value = K - M
           /\ 0 < K /\ K < M
           /\ coll = SubSeq(pre.coll, M - K + 1, M)
           /\ AllStarted(coll)
           /\ \A k \in 1..(M - K) :
                 ObservedThen(pre.coll[k], SHUTTING_DOWN, SHUTTED_DOWN)

C8_Witness == Resolved("rescale") /\ result.value <= -1 /\ Len(coll) >= 2

\* C9 (as stated): hardShutdown(), invoked in any orchestrator status,
\* resolves and sets the orchestrator status to SHUT_DOWN.
C9_HardShutdownAlwaysResolves ==
    result.kind = "hardShutdown" =>
        /\ result.outcome = "resolved"
        /\ mstatus = STATUS_SHUTTED_DOWN

\* C10: when the exit event with code 0 is dispatched while the handle is
\* STOPPING or SHUTTING_DOWN, the handle emits NormalExit{code: 0} and its
\* status is not set to FAILED.
C10_NormalExit ==
    [][\A h \in Handles :
          (/\ exitEv[h].pending
           /\ ~exitEv'[h].pending
           /\ exitEv[h].code = 0
           /\ wstatus[h] \in {STOPPING, SHUTTING_DOWN})
          => /\ exits'[h] = Append(exits[h],
                     [type |-> "NormalExit", code |-> 0, signal |-> ""])
             /\ wstatus'[h] = wstatus[h]
             /\ wstatus'[h] # FAILED]_vars

C10_Witness ==
    \E h \in Handles :
        /\ wstatus[h] = STOPPING
        /\ exits[h] = <<[type |-> "NormalExit", code |-> 0, signal |-> ""]>>

\* C11 (as stated): every dispatch of an exit event other than code 0 in
\* STOPPING or SHUTTING_DOWN sets the handle's status to FAILED and emits
\* ExternalSignal{signal} for a signal, AbnormalExit{code} otherwise.
C11_OtherExitsFail ==
    [][\A h \in Handles :
          (/\ exitEv[h].pending
           /\ ~exitEv'[h].pending
           /\ ~(wstatus[h] \in {STOPPING, SHUTTING_DOWN} /\ exitEv[h].code = 0))
          => /\ wstatus'[h] = FAILED
             /\ exits'[h] = Append(exits[h],
                   IF exitEv[h].signal # ""
                   THEN [type |-> "ExternalSignal", code |-> CodeNull,
                         signal |-> exitEv[h].signal]
                   ELSE [type |-> "AbnormalExit", code |-> exitEv[h].code,
                         signal |-> ""])]_vars

\* the child process of handle h has terminated and its exit event has been
\* dispatched to the handle
Terminated(h) == wid[h] # 0 /\ ~alive[h] /\ ~exitEv[h].pending

\* C12 (as stated): every termination of a handle's child process produces
\* exactly one exit reason from the handle and exactly one worker-exit
\* notification of the orchestrator, carrying that reason and the identity.
C12_OneReasonPerTermination ==
    \A h \in Handles :
        Terminated(h) =>
            /\ Len(exits[h]) = 1
            /\ WorkerExitEmitted(h) = <<[reason |-> exits[h][1], id |-> wid[h]]>>

\* the status edges of the handle's lifecycle, besides the jump to FAILED
LifecycleEdges ==
    {<<INITIALIZED, STARTING>>, <<STARTING, STARTED>>,
     <<STARTED, STOPPING>>, <<STOPPING, STOPPED>>,
     <<STARTED, SHUTTING_DOWN>>, <<STOPPED, SHUTTING_DOWN>>,
     <<SHUTTING_DOWN, SHUTTED_DOWN>>}

\* C13 (as stated): every change of a handle's status follows a lifecycle
\* edge or jumps to FAILED, whatever the child reports over IPC.
C13_StatusFollowsEdges ==
    [][\A h \in Handles :
          wstatus'[h] # wstatus[h] =>
              \/ <<wstatus[h], wstatus'[h]>> \in LifecycleEdges
              \/ wstatus'[h] = FAILED]_vars

\* C14 (as stated): SHUTTED_DOWN and FAILED are terminal: a handle in one of
\* them never changes status again.
C14_TerminalStatusesStay ==
    [][\A h \in Handles :
          wstatus[h] \in {SHUTTED_DOWN, FAILED} => wstatus'[h] = wstatus[h]]_vars

\* the master's event loop runs every continuation that is ready and
\* dispatches every process event that has arrived; nothing obliges a child
\* to receive, acknowledge or exit
SpecLive ==
    /\ Spec
    /\ WF_vars(MasterStep)
    /\ \A h \in Handles : WF_vars(DeliverMessage(h)) /\ WF_vars(DeliverExit(h))

\* C15 (as stated): every orchestrator operation in flight eventually
\* resolves or rejects, even if a child never reports the awaited status.
C15_EveryWaitSettles == (op.kind # "none") ~> (op.kind = "none")

\* what a rejected invocation must leave alone: the orchestrator status, the
\* desired scale, the collection, every handle status, and no process is
\* spawned or signalled
NothingChanged ==
    UNCHANGED <<mstatus, scale, coll, nextHandle, nextId, wstatus, wid, alive,
                sent, toChild, exitEv, op>>

\* C16: an operation invoked when its precondition fails is rejected with
\* the error of that precondition and changes nothing: start() outside
\* {SHUT_DOWN, STOPPED} with AlreadyInitializedError, rescale(size <= 0)
\* with InvalidArgumentError in any status, rescale and gracefulReload
\* outside STARTED and gracefulShutdown outside {STARTED, STOPPED} with
\* InappropriateConditionError.
C16_FailedPreconditionChangesNothing ==
    [][nops' = nops + 1 =>
          LET kind == IF op'.kind # "none" THEN op'.kind ELSE result'.kind
              RejectedWith(err) ==
                  /\ result' = Settled(kind, "rejected", err, 0)
                  /\ NothingChanged
          IN /\ (kind = "start"
                 /\ mstatus \notin {STATUS_SHUTTED_DOWN, STATUS_STOPPED})
                    => RejectedWith("AlreadyInitializedError")
             /\ (kind = "rescale" /\ pre'.arg <= 0)
                    => RejectedWith("InvalidArgumentError")
             /\ (kind = "rescale" /\ pre'.arg > 0 /\ mstatus # STATUS_STARTED)
                    => RejectedWith("InappropriateConditionError")
             /\ (kind = "gracefulReload" /\ mstatus # STATUS_STARTED)
                    => RejectedWith("InappropriateConditionError")
             /\ (kind = "gracefulShutdown"
                 /\ mstatus \notin {STATUS_STARTED, STATUS_STOPPED})
                    => RejectedWith("InappropriateConditionError")]_vars

C16_Witness ==
    /\ Rejected("start")
    /\ result.err = "AlreadyInitializedError"
    /\ mstatus = STATUS_STARTED
    /\ Len(coll) >= 2
    /\ AllStarted(coll)

LiveProcesses == {h \in Handles : alive[h]}

\* the old set of the reload in flight has not been sent anything yet
OldSetUntouched == \A k \in 1..Len(pre.coll) : sent[pre.coll[k]] = pre.sent[pre.coll[k]]

\* C18: in every gracefulReload() that resolves there is an instant at which
\* all old-set processes and all replacement processes are alive together:
\* the reload does not resolve without having addressed every old handle,
\* and at the instant before it first addresses one, the processes of the
\* old set and of the replacements, old count + desired scale in number,
\* are all alive.
C18_ReloadDoublesProcesses ==
    [][/\ (/\ op.kind = "gracefulReload"
           /\ OldSetUntouched
           /\ ~OldSetUntouched') =>
              /\ Range(pre.coll) \cup Range(coll) \subseteq LiveProcesses
              /\ Cardinality(Range(pre.coll) \cup Range(coll))
                    = Len(pre.coll) + scale
       /\ (/\ op.kind = "gracefulReload"
           /\ result'.kind = "gracefulReload"
           /\ result'.outcome = "resolved") =>
              \A k \in 1..Len(pre.coll) :
                  sent[pre.coll[k]] # pre.sent[pre.coll[k]]]_vars

C18_Witness ==
    /\ Resolved("gracefulReload")
    /\ Len(pre.coll) >= 2
    /\ scale >= 2

\* the statuses a, b, c, d occur in s in that order
ObservedInOrder(s, a, b, c, d) ==
    \E i, j, k, l \in 1..Len(s) :
        /\ i < j /\ j < k /\ k < l
        /\ s[i] = a /\ s[j] = b /\ s[k] = c /\ s[l] = d

\* C19: when gracefulReload() resolves, every handle of the old set has
\* observed STOPPING, STOPPED, SHUTTING_DOWN and SHUTTED_DOWN in that order,
\* and none of them is in the collection.
C19_ReloadRetiresOldSet ==
    Resolved("gracefulReload") =>
        \A k \in 1..Len(pre.coll) :
            /\ ObservedInOrder(hist[pre.coll[k]], STOPPING, STOPPED,
                               SHUTTING_DOWN, SHUTTED_DOWN)
            /\ pre.coll[k] \notin Range(coll)

C19_Witness ==
    /\ Resolved("gracefulReload")
    /\ Len(pre.coll) >= 2
    /\ \A k \in 1..Len(pre.coll) : SHUTTED_DOWN \in Range(hist[pre.coll[k]])

\* the commands sent to handle h since the operation in flight was invoked
SentSince(h) == SubSeq(sent[h], Len(pre.sent[h]) + 1, Len(sent[h]))

\* C20 (as stated): during gracefulShutdown() from STARTED, a handle is sent
\* QUIT only after every handle of the collection was sent STOP and has reported
\* STOPPED, and the orchestrator status goes STARTED, STOPPING, STOPPED,
\* SHUT_DOWN: it is STOPPING until the last STOPPED report, STOPPED while
\* the handles are quit.
C20_ShutdownStopsBeforeQuit ==
    [][(LastOp = "gracefulShutdown" /\ pre.mstatus = STATUS_STARTED) =>
          /\ \A h \in Handles :
                (sent'[h] # sent[h] /\ sent'[h][Len(sent'[h])] = "quit") =>
                    /\ SentSince(h) = <<"stop">>
                    /\ \A k \in 1..Len(pre.coll) :
                          /\ "stop" \in Range(SentSince(pre.coll[k]))
                          /\ STOPPED \in Range(hist[pre.coll[k]])
                    /\ mstatus = STATUS_STOPPED
          /\ (op.kind = "gracefulShutdown"
              /\ \A k \in 1..Len(pre.coll) : SentSince(pre.coll[k]) = <<>>)
                => mstatus = STATUS_STOPPING
          /\ mstatus' # mstatus =>
                \/ mstatus = STATUS_STOPPING /\ mstatus' = STATUS_STOPPED
                \/ mstatus = STATUS_STOPPED /\ mstatus' = STATUS_SHUTTED_DOWN
                \/ op.kind = "none"]_vars

\* C21 (as stated): after hardShutdown() resolves the collection and
\* getWorkersStatuses() are empty and every child process that was owned
\* has been sent a kill signal.
C21_HardShutdownEmpties ==
    Resolved("hardShutdown") =>
        /\ coll = <<>>
        /\ GetWorkersStatuses = <<>>
        /\ \A k \in 1..Len(pre.coll) :
              /\ Len(sent[pre.coll[k]]) > Len(pre.sent[pre.coll[k]])
              /\ sent[pre.coll[k]][Len(pre.sent[pre.coll[k]]) + 1] = "kill"

\* C22 (as stated): the reason delivered with worker-exit is NormalExit
\* whenever the process exited with code 0, AbnormalExit only for a
\* non-zero code, ExternalSignal only for a signal.
C22_ReasonMatchesExit ==
    \A h \in Handles :
        \A k \in 1..Len(WorkerExitEmitted(h)) :
            LET reason == WorkerExitEmitted(h)[k].reason IN
            /\ reason.code = 0 => reason.type = "NormalExit"
            /\ reason.type = "AbnormalExit" => reason.code \notin {0, CodeNull}
            /\ reason.type = "ExternalSignal" => reason.signal # ""

\* C23 (as stated): a runtime error reported by a child process never
\* propagates as an exception out of the orchestrator's event handling.
C23_ErrorNeverThrows == uncaught = {}

\* C24: create(config) with a valid configuration spawns no child process:
\* the orchestrator status is SHUT_DOWN, the collection holds count handles
\* all INITIALIZED and the desired scale is count; a configuration with
\* count <= 0 or a non-positive restartTimeout or statusTimeout is refused
\* with InvalidConfigurationError.
C24_CreateSpawnsNothing ==
    /\ (created = "created" /\ nops = 0) =>
          /\ \A h \in Handles : ~alive[h] /\ wid[h] = 0
          /\ nextId = 1
          /\ mstatus = STATUS_SHUTTED_DOWN
          /\ Len(coll) = count
          /\ \A k \in 1..Len(coll) : wstatus[coll[k]] = INITIALIZED
          /\ scale = count
    /\ (count <= 0 \/ config.restartTimeout <= 0 \/ config.statusTimeout <= 0)
          => created = "InvalidConfigurationError"

C24_Witness ==
    /\ created = "InvalidConfigurationError"
    /\ count = MaxCount
    /\ config.restartTimeout > 0
    /\ config.statusTimeout <= 0

\* C25 (as stated): whenever the orchestrator status is STARTED and no
\* operation is in flight, the collection size equals the desired scale.
C25_StartedSizeEqualsScale ==
    (mstatus = STATUS_STARTED /\ op.kind = "none") => Len(coll) = scale

\* C26 (as stated): whenever no operation is in flight, every live child
\* process that has neither reported SHUTTED_DOWN nor been sent a kill
\* signal is the process of a handle in the collection.
C26_NoLiveProcessOutsideCollection ==
    op.kind = "none" =>
        \A h \in Handles :
            (/\ alive[h]
             /\ cstatus[h] # SHUTTED_DOWN
             /\ "kill" \notin Range(sent[h]))
                => h \in Range(coll)


\* C27: while start(), stop() or quit(false) of a handle waits for its
\* status sequence, the first status change of the handle that differs from
\* the next expected status rejects the call with a WorkerStatusError that
\* carries {expectedStatus, actualStatus}; the rejection is final (the result
\* changes only when a new operation is invoked) and nothing is sent or
\* forked again for it.
C27_MismatchRejectsAtOnce ==
    [][/\ \A h \in Handles :
            (/\ lsn.h = h
             /\ wstatus'[h] # wstatus[h]
             /\ wstatus'[h] # Head(lsn.seq)) =>
                /\ result' = WorkerStatusError(op.kind, Head(lsn.seq),
                                               wstatus'[h])
                /\ op'.kind = "none"
                /\ lsn' = NoListener
                /\ sent' = sent
                /\ wid' = wid
       /\ (result.err = "WorkerStatusError" /\ result' # result) =>
             nops' = nops + 1]_vars

C27_Witness ==
    /\ result.outcome = "rejected"
    /\ result.err = "WorkerStatusError"
    /\ result.data \in {<<STARTED, FAILED>>, <<STOPPED, STARTED>>}
    /\ op.kind = "none"


\* the stop() of the stop group in flight is the call on handle h, which was
\* STARTED when the operation was invoked
StopCallOn(h) ==
    /\ op.stages # <<>>
    /\ CurStage.g = "stop"
    /\ op.i <= Len(CurStage.grp)
    /\ CurHandle = h
    /\ \E k \in 1..Len(pre.coll) :
          pre.coll[k] = h /\ pre.statuses[k] = STARTED

QuitCallsResolved == op.kind = "none" /\ result.outcome = "resolved"

\* the child of handle h was sent QUIT, reported SHUTTING_DOWN and
\* SHUTTED_DOWN, and its exit with code 0 has been dispatched
QuitAndExited(h) ==
    /\ wid[h] # 0
    /\ "quit" \in Range(sent[h])
    /\ ObservedThen(h, SHUTTING_DOWN, SHUTTED_DOWN)
    /\ ~alive[h]
    /\ ~exitEv[h].pending
    /\ \A k \in 1..Len(exits[h]) : exits[h][k].code = 0

\* quit(false) resolves only after SHUTTING_DOWN and then SHUTTED_DOWN have
\* been observed
QuitResolvesAfterReports ==
    QuitCallsResolved =>
        \A h \in Handles :
            "quit" \in Range(SentSince(h)) =>
                ObservedThen(h, SHUTTING_DOWN, SHUTTED_DOWN)

\* C29 (as stated): quit(false) on a STARTED or STOPPED handle with a
\* cooperating child sends QUIT and resolves only after the handle has
\* observed SHUTTING_DOWN and then SHUTTED_DOWN, and once the child has
\* exited with code 0 the handle's status is SHUTTED_DOWN for good.
C29_QuitEndsShuttedDown ==
    /\ QuitResolvesAfterReports
    /\ \A h \in Handles : QuitAndExited(h) => wstatus[h] = SHUTTED_DOWN


\* C30 (as stated): stop() on a handle that has no live child process, never
\* spawned or already terminated, resolves at once: no command is sent, the
\* handle's status does not change and the caller goes on to the next handle.
C30_StopWithoutProcessIsNoOp ==
    [][(Running("stop") /\ ~alive[CurHandle]) =>
          /\ op' = [op EXCEPT !.i = @ + 1]
          /\ UNCHANGED <<sent, toChild, wstatus, result>>]_vars


\* C31 (as stated): the child-side acknowledgments are idempotent: a step of
\* the child that takes its bus to a new status sends exactly one report of
\* that status, however many calls made it, and a step that leaves the bus
\* status alone sends nothing.
C31_AcknowledgeSendsOnce ==
    [][\A h \in Handles :
          alive[h] =>
             /\ cstatus'[h] # cstatus[h] =>
                   toMaster'[h] = Append(toMaster[h], cstatus'[h])
             /\ cstatus'[h] = cstatus[h] =>
                   Len(toMaster'[h]) <= Len(toMaster[h])]_vars


\* the step sends the report of status s from the child of handle h
Reports(h, s) == toMaster'[h] = Append(toMaster[h], s)

\* the step makes the handle observe status s
Observes(h, s) == hist'[h] = Append(hist[h], s)

\* C32: in the child, the hosted application is notified of STOP only with
\* the STOPPING report sent (the bus is STOPPING), of QUIT only with the
\* SHUTTING_DOWN report sent; STOPPED and SHUTTED_DOWN are reported only by
\* an acknowledgment the notified application makes; and the handle of a
\* command-driven child observes STOPPING before STOPPED and SHUTTING_DOWN
\* before SHUTTED_DOWN.
C32_ReportBeforeNotification ==
    [][\A h \in Handles :
          /\ ("stopped" \in cpend'[h] /\ "stopped" \notin cpend[h]) =>
                /\ cstatus'[h] = STOPPING
                /\ Reports(h, STOPPING) \/ cstatus[h] = STOPPING
          /\ ("shutdown" \in cpend'[h] /\ "shutdown" \notin cpend[h]) =>
                /\ cstatus'[h] = SHUTTING_DOWN
                /\ Reports(h, SHUTTING_DOWN) \/ cstatus[h] = SHUTTING_DOWN
          /\ Reports(h, STOPPED) =>
                "stopped" \in cpend[h] /\ "stopped" \notin cpend'[h]
          /\ Reports(h, SHUTTED_DOWN) =>
                "shutdown" \in cpend[h] /\ "shutdown" \notin cpend'[h]
          /\ Observes(h, STOPPED) => STOPPING \in Range(hist[h])
          /\ Observes(h, SHUTTED_DOWN) => SHUTTING_DOWN \in Range(hist[h])]_vars

C32_Witness ==
    \E h \in Handles :
        /\ ObservedThen(h, STOPPING, STOPPED)
        /\ ObservedThen(h, SHUTTING_DOWN, SHUTTED_DOWN)
        /\ cpend[h] = {"exit"}


C34_AssureExpectedStatus ==
    \A id \in SheepIds :
        LET p == sheep.pending[id] IN
        /\ p.st = "resolved" => p.value \in p.asked /\ p.timer = "cleared"
        /\ p.st = "rejected" => p.value = "TimeoutError" /\ p.timer = "fired"
        /\ p.st = "pending" => p.timer = "armed" /\ p.armed = 1


\* C35 (as stated): once an orchestrator operation has settled and none is
\* in flight, the orchestrator status is SHUT_DOWN, STARTED or STOPPED, never
\* STARTING or STOPPING, so that start() or gracefulShutdown() is not refused
\* by the status guard after a start() that rejected.
C35_SettledStatusIsStable ==
    (op.kind = "none" /\ result.outcome \in {"resolved", "rejected"}) =>
        mstatus \in {STATUS_SHUTTED_DOWN, STATUS_STARTED, STATUS_STOPPED}


\* the operation settled last rejected while it waited for a handle to start
RejectedInStart(kind) ==
    /\ Rejected(kind)
    /\ op.kind = "none"
    /\ \/ result.err \in {"ProcessError", "UnexpectedWorkerState"}
       \/ /\ result.err = "WorkerStatusError"
          /\ result.data[1] \in {STARTING, STARTED}

\* C36 (as stated): when gracefulReload() rejects because a replacement
\* failed to start, the collection is still the old set, every old handle is
\* STARTED, and no replacement process is left alive.
C36_FailedReloadKeepsOldSet ==
    RejectedInStart("gracefulReload") =>
        /\ coll = pre.coll
        /\ AllStarted(pre.coll)
        /\ \A h \in Handles : h >= pre.nextHandle => ~alive[h]


\* every exit reason emitted so far has been handled by the owner, and no
\* exit event waits to be dispatched
ExitsHandled ==
    \A h \in Handles :
        /\ (\E i \in 1..Len(sent[h]) : sent[h][i] \in {"quit", "kill"}) =>
               ~alive[h]
        /\ ~exitEv[h].pending
        /\ ~RestartDue(h)
        /\ owner.calls[h].st # "await"

\* C37 (as stated): with an owner that calls restartWorkerById(id) on every
\* worker-exit whose reason is ExternalSignal or AbnormalExit, once
\* hardShutdown() or gracefulShutdown() has resolved and the exit
\* notifications it caused have been handled, no child process of the
\* orchestrator is alive while the orchestrator status is SHUT_DOWN.
C37_NothingAliveAfterShutdown ==
    (/\ op.kind = "none"
     /\ result.outcome = "resolved"
     /\ result.kind \in {"hardShutdown", "gracefulShutdown"}
     /\ mstatus = STATUS_SHUTTED_DOWN
     /\ ExitsHandled) =>
        \A h \in Handles : ~alive[h]

\* two restartWorkerById calls of the owner for different identities, both of
\* handles of the collection, that overlapped (n1's was waiting when n2's
\* began), both resolved, with no operation of the orchestrator in flight or
\* invoked meanwhile and both replacement processes still running
OverlappedRestarts(n1, n2) ==
    /\ n1 # n2
    /\ owner.calls[n1].st = "resolved"
    /\ owner.calls[n2].st = "resolved"
    /\ n1 \in owner.calls[n2].with
    /\ owner.calls[n1].id # owner.calls[n2].id
    /\ \A n \in {n1, n2} :
          \E k \in 1..Len(owner.calls[n1].before) :
              wid[owner.calls[n1].before[k]] = owner.calls[n].id
    /\ owner.calls[n1].idle
    /\ op.kind = "none"
    /\ nops = owner.calls[n1].nops
    /\ alive[n1] /\ ~exitEv[n1].pending
    /\ alive[n2] /\ ~exitEv[n2].pending

\* the positions of the collection that resolved restartWorkerById calls of
\* the owner have replaced
RestartedPositions ==
    {owner.calls[m].index : m \in {n \in Handles : owner.calls[n].st = "resolved"}}

\* C38: two overlapping restartWorkerById calls for different identities each
\* replace only their own handle: when both have resolved the collection has
\* the length it had, neither old identity is in it, the two positions hold
\* the two replacements, both STARTED, and every position no restart has
\* replaced holds the handle it held.
C38_OverlappingRestartsReplaceOwn ==
    \A n1, n2 \in Handles :
        OverlappedRestarts(n1, n2) =>
            LET before == owner.calls[n1].before
                i1 == owner.calls[n1].index
                i2 == owner.calls[n2].index
            IN /\ Len(coll) = Len(before)
               /\ \A k \in 1..Len(coll) :
                     wid[coll[k]] \notin {owner.calls[n1].id, owner.calls[n2].id}
               /\ i1 # i2
               /\ coll[i1] = n1 /\ wstatus[n1] = STARTED
               /\ coll[i2] = n2 /\ wstatus[n2] = STARTED
               /\ \A k \in 1..Len(coll) :
                     k \notin RestartedPositions => coll[k] = before[k]

\* both of two overlapping restarts have resolved
C38_Witness ==
    \E n1, n2 \in Handles : OverlappedRestarts(n1, n2)

\* the start() of handle h is pending: the operation in flight waits for the
\* statuses of h in a start group (so h has not reported STARTED)
StartPending(h) ==
    /\ lsn.h = h
    /\ op.stages # <<>>
    /\ CurStage.g = "start"

\* the exit event of handle h is dispatched in this step
ExitDispatched(h) == exitEv[h].pending /\ ~exitEv'[h].pending

\* C39: when the exit of a child is dispatched while the start() of its handle
\* is pending, the start() rejects (and the operation with it), the handle's
\* status becomes FAILED, and the handle emits one exit reason, ExternalSignal
\* or AbnormalExit.
C39_ExitBeforeStartedRejects ==
    [][\A h \in Handles :
          (StartPending(h) /\ ExitDispatched(h)) =>
              /\ lsn' = NoListener
              /\ op' = Idle
              /\ result'.outcome = "rejected"
              /\ result'.err = "WorkerStatusError"
              /\ wstatus'[h] = FAILED
              /\ Len(exits'[h]) = Len(exits[h]) + 1
              /\ exits'[h][Len(exits'[h])].type \in {"ExternalSignal", "AbnormalExit"}]_vars

\* a start() was rejected by the exit of its child, which left the handle
\* FAILED with an exit reason
C39_Witness ==
    /\ result.outcome = "rejected"
    /\ result.err = "WorkerStatusError"
    /\ Len(result.data) = 2 /\ result.data[2] = FAILED
    /\ \E h \in Handles :
          /\ wstatus[h] = FAILED
          /\ STARTED \notin {hist[h][k] : k \in 1..Len(hist[h])}
          /\ Len(exits[h]) = 1

====
